---- MODULE Spec2Model ----
(***************************************************************************)
(* Supplychain Watchtower (src/watchtower.py).                             *)
(*                                                                         *)
(* A single-shot batch job: load the watch-list, resolve the latest        *)
(* version of every watched repository through the GitHub API, diff it     *)
(* against the persisted state, write process.yaml (this run's changes)    *)
(* and state.yaml (the updated state).                                     *)
(*                                                                         *)
(* Strings are sequences of one-character strings, so that the string      *)
(* operations of parse_repo_url and the key ordering of dump_yaml are      *)
(* computed rather than assumed.  A Python dict is a sequence of           *)
(* <<key, value>> pairs in insertion order with unique keys.               *)
(***************************************************************************)
EXTENDS Integers, Sequences, FiniteSets, TLC

VARIABLES
    token,              \* GITHUB_TOKEN or GH_TOKEN is set to a non-empty value
    INCLUDE_PRERELEASE, \* module-level flag read from the environment
    watchPath,          \* what WATCH_FILE points at
    upstream,           \* the remote API: full name -> repository
    stateFile,          \* content of STATE_FILE (the "repositories" mapping)
    processFile,        \* content of PROCESS_FILE (the "repositories" mapping)
    written,            \* the documents the current run has written so far
    pc,                 \* position of the current run inside main()
    watch_repos,        \* main(): the loaded watch list
    idx,                \* main(): position of the for loop in watch_repos
    state_map,          \* main(): state_map
    process_map,        \* main(): process_map
    exit_code,          \* exit status of the process (-1 while running)
    exc,                \* how the run ended
    prev,               \* how the previous run ended
    changeLog,          \* URLs for which this run printed "CHANGE detected"
    arg,                \* argument of the function under test
    ret                 \* its result

vars == <<token, INCLUDE_PRERELEASE, watchPath, upstream, stateFile,
          processFile, written, pc, watch_repos, idx, state_map, process_map,
          exit_code, exc, prev, changeLog, arg, ret>>

(***************************************************************************)
(* Bounds                                                                  *)
(***************************************************************************)
MaxPieces == 4
MaxWatch == 2
MaxFiles == 2
MaxReleases == 2
MaxTags == 1

(***************************************************************************)
(* Python str operations on sequences of characters                        *)
(***************************************************************************)
\* code points in increasing order (the characters the model uses)
Alphabet == <<" ", "#", ".", "/", ":", "?", "@", "a", "b", "c", "g", "h",
              "i", "m", "o", "p", "s", "t", "u", "w">>

Ord(c) == CHOOSE i \in 1..Len(Alphabet) : Alphabet[i] = c

RECURSIVE StrLess(_, _)
\* a < b for str (lexicographic by code point)
StrLess(a, b) ==
    IF b = <<>> THEN FALSE
    ELSE IF a = <<>> THEN TRUE
    ELSE IF a[1] = b[1] THEN StrLess(Tail(a), Tail(b))
    ELSE Ord(a[1]) < Ord(b[1])

startswith(s, p) == Len(s) >= Len(p) /\ SubSeq(s, 1, Len(p)) = p

endswith(s, p) == Len(s) >= Len(p) /\ SubSeq(s, Len(s) - Len(p) + 1, Len(s)) = p

\* s.find(p) + 1: the position of the first occurrence of p in s, 0 if none
find(s, p) ==
    LET hits == {i \in 1..(Len(s) - Len(p) + 1) : SubSeq(s, i, i + Len(p) - 1) = p}
    IN  IF hits = {} THEN 0 ELSE CHOOSE i \in hits : \A j \in hits : i <= j

contains(s, p) == find(s, p) # 0

\* s.split(p, 1)[1] when p occurs in s
AfterFirst(s, p) == SubSeq(s, find(s, p) + Len(p), Len(s))

\* s.split(p)[0]
BeforeFirst(s, p) ==
    IF contains(s, p) THEN SubSeq(s, 1, find(s, p) - 1) ELSE s

RECURSIVE lstrip(_, _)
lstrip(s, chars) ==
    IF s # <<>> /\ s[1] \in chars THEN lstrip(Tail(s), chars) ELSE s

RECURSIVE rstrip(_, _)
rstrip(s, chars) ==
    IF s # <<>> /\ s[Len(s)] \in chars THEN rstrip(SubSeq(s, 1, Len(s) - 1), chars) ELSE s

\* s.strip(chars); s.strip() is strip(s, Whitespace)
strip(s, chars) == rstrip(lstrip(s, chars), chars)

Whitespace == {" "}

RECURSIVE split(_, _)
\* s.split(sep): always at least one segment
split(s, sep) ==
    IF contains(s, sep)
    THEN <<SubSeq(s, 1, find(s, sep) - 1)>> \o split(AfterFirst(s, sep), sep)
    ELSE <<s>>

(***************************************************************************)
(* String literals of the source                                           *)
(***************************************************************************)
SSH_PREFIX == <<"g","i","t","@","g","i","t","h","u","b",".","c","o","m",":">>
GITHUB_HOST == <<"g","i","t","h","u","b",".","c","o","m","/">>
DOT_GIT == <<".","g","i","t">>
HTTPS_SCHEME == <<"h","t","t","p","s",":","/","/">>

(***************************************************************************)
(* parse_repo_url                                                          *)
(***************************************************************************)
\* lines 167-168
DropSshPrefix(u) ==
    IF startswith(u, SSH_PREFIX) THEN AfterFirst(u, SSH_PREFIX) ELSE u

\* lines 171-172
DropHost(u) ==
    IF contains(u, GITHUB_HOST) THEN AfterFirst(u, GITHUB_HOST) ELSE u

\* line 175
DropQueryAndSlashes(u) ==
    strip(BeforeFirst(BeforeFirst(u, <<"#">>), <<"?">>), {"/"})

\* lines 176-177
DropDotGit(u) ==
    IF endswith(u, DOT_GIT) THEN SubSeq(u, 1, Len(u) - 4) ELSE u

\* the value of u when the split into parts happens
NormalizedPath(url) ==
    DropDotGit(DropQueryAndSlashes(DropHost(DropSshPrefix(strip(url, Whitespace)))))

\* lines 180-183; ok = FALSE stands for the ValueError
OwnerAndRepo(parts) ==
    IF Len(parts) < 2
    THEN [ok |-> FALSE, owner |-> <<>>, repo |-> <<>>]
    ELSE [ok |-> TRUE, owner |-> parts[1], repo |-> parts[2]]

parse_repo_url(url) == OwnerAndRepo(split(NormalizedPath(url), <<"/">>))

(***************************************************************************)
(* Python values: None, truthiness, dict                                   *)
(***************************************************************************)
\* None among version strings (no version of the model is spelled "None")
None == "None"

\* bool(x) for x a str or None
Truthy(x) == x # None /\ x # ""

EmptyDict == <<>>

Keys(d) == {d[i][1] : i \in 1..Len(d)}

\* d.get(k)
DictGet(d, k) ==
    IF k \in Keys(d) THEN d[CHOOSE i \in 1..Len(d) : d[i][1] = k][2] ELSE None

\* d[k] = v: an existing key keeps its position, a new key goes last
DictSet(d, k, v) ==
    IF k \in Keys(d)
    THEN [i \in 1..Len(d) |-> IF d[i][1] = k THEN <<k, v>> ELSE d[i]]
    ELSE Append(d, <<k, v>>)

(***************************************************************************)
(* load_yaml / dump_yaml of a {"repositories": {...}} document             *)
(* A document is the sequence of its key: value lines.                     *)
(***************************************************************************)
RECURSIVE InsertSorted(_, _)
InsertSorted(doc, kv) ==
    IF doc = <<>> THEN <<kv>>
    ELSE IF StrLess(kv[1], doc[1][1]) THEN <<kv>> \o doc
    ELSE <<doc[1]>> \o InsertSorted(Tail(doc), kv)

RECURSIVE SortByKey(_)
SortByKey(d) ==
    IF d = <<>> THEN <<>> ELSE InsertSorted(SortByKey(Tail(d)), d[1])

\* yaml.safe_dump(obj, f, sort_keys=True, ...): the lines in key order
dump_yaml(obj) == SortByKey(obj)

RECURSIVE ReadPairs(_, _)
\* yaml.safe_load builds the dict line by line
ReadPairs(doc, d) ==
    IF doc = <<>> THEN d ELSE ReadPairs(Tail(doc), DictSet(d, doc[1][1], doc[1][2]))

\* load_yaml(path, default={}) followed by the extraction of "repositories";
\* a missing, empty or wrongly shaped document is the empty sequence
load_yaml(doc) == ReadPairs(doc, EmptyDict)

(***************************************************************************)
(* latest_version_for_repo                                                 *)
(***************************************************************************)
FullName(owner, name) == owner \o <<"/">> \o name

\* gh.get_repo(full_name) succeeds
Accessible(gh, full_name) == full_name \in DOMAIN gh /\ gh[full_name].accessible

RECURSIVE ScanReleases_DraftsCount(_)
\* ScanReleases without the draft test
ScanReleases_DraftsCount(releases) ==
    IF releases = <<>> THEN None
    ELSE LET rel == Head(releases)
         IN  IF ~INCLUDE_PRERELEASE /\ rel.prerelease
             THEN ScanReleases_DraftsCount(Tail(releases))
             ELSE IF Truthy(rel.tag_name) THEN rel.tag_name
             ELSE IF Truthy(rel.title) THEN rel.title
             ELSE ScanReleases_DraftsCount(Tail(releases))

RECURSIVE ScanReleases(_)
\* the for loop over releases; None when the loop ends without a return
ScanReleases(releases) ==
    IF releases = <<>> THEN None
    ELSE LET rel == Head(releases)
         IN  IF rel.draft THEN ScanReleases(Tail(releases))
             ELSE IF ~INCLUDE_PRERELEASE /\ rel.prerelease THEN ScanReleases(Tail(releases))
             ELSE IF Truthy(rel.tag_name) THEN rel.tag_name
             ELSE IF Truthy(rel.title) THEN rel.title
             ELSE ScanReleases(Tail(releases))

\* lines 220-227: the tag fallback
FirstTag(repo) ==
    IF repo.tags_ok /\ repo.tags # <<>> THEN repo.tags[1] ELSE None

\* lines 204-217: the release tier, None when it returns nothing
FromReleases(repo) ==
    IF repo.releases_ok THEN ScanReleases(repo.releases) ELSE None

\* lines 203-227
Returned(fromRelease, repo) ==
    IF fromRelease # None THEN fromRelease ELSE FirstTag(repo)

\* lines 203-227 for the repository get_repo returned
VersionOf(repo) == Returned(FromReleases(repo), repo)

\* lines 195-227
Lookup(gh, full_name) ==
    IF ~Accessible(gh, full_name) THEN [raised |-> FALSE, value |-> None]
    ELSE [raised |-> FALSE, value |-> VersionOf(gh[full_name])]

\* lines 194-227 once the URL is parsed
LookupParsed(gh, p) ==
    IF ~p.ok THEN [raised |-> TRUE, value |-> None]
    ELSE Lookup(gh, FullName(p.owner, p.repo))

\* raised = TRUE stands for the ValueError of parse_repo_url
latest_version_for_repo(gh, repo_url) == LookupParsed(gh, parse_repo_url(repo_url))

(***************************************************************************)
(* load_watch_repositories                                                 *)
(* watchPath = [kind, files]; a file is [shape, repos]:                    *)
(*   "ok"      a mapping whose "repositories" is the list repos (an empty  *)
(*             list also stands for a missing or falsy "repositories" and  *)
(*             for an empty document)                                      *)
(*   "notlist" a mapping whose "repositories" is truthy and not a list     *)
(*   "badtop"  a truthy document that is not a mapping                     *)
(***************************************************************************)
RECURSIVE LoadDirectory(_, _)
LoadDirectory(files, repositories) ==
    IF files = <<>> THEN [raised |-> "none", value |-> repositories]
    ELSE LET data == Head(files)
         IN  IF data.shape = "badtop"
             THEN [raised |-> "AttributeError", value |-> <<>>]
             ELSE IF data.shape = "ok"
             THEN LoadDirectory(Tail(files), repositories \o data.repos)
             ELSE LoadDirectory(Tail(files), repositories)

load_watch_repositories(watch_path) ==
    IF watch_path.kind = "dir"
    THEN LoadDirectory(watch_path.files, <<>>)
    ELSE IF watch_path.kind = "file"
    THEN LET data == watch_path.files[1]
         IN  IF data.shape = "badtop" THEN [raised |-> "AttributeError", value |-> <<>>]
             ELSE IF data.shape = "ok" THEN [raised |-> "none", value |-> data.repos]
             ELSE [raised |-> "SystemExit", value |-> <<>>]
    ELSE [raised |-> "SystemExit", value |-> <<>>]

(***************************************************************************)
(* The inputs of the model                                                 *)
(***************************************************************************)
\* "https://github.com/a/w"
U1 == HTTPS_SCHEME \o GITHUB_HOST \o <<"a", "/", "w">>
\* "git@github.com:a/w.git": the same repository under another key
U2 == SSH_PREFIX \o <<"a", "/", "w">> \o DOT_GIT
\* "w": no owner, parse_repo_url raises
BAD == <<"w">>
\* " ": blank after strip()
BLANK == <<" ">>

Entries == {U1, U2, BAD, BLANK}

\* the repositories the remote API knows: "a/w"
FullNames == {<<"a", "/", "w">>}

Versions == {"v1", "v2"}

SeqsUpTo(S, n) == UNION {[1..k -> S] : k \in 0..n}

Release(d, p, t, n) == [draft |-> d, prerelease |-> p, tag_name |-> t, title |-> n]

Repo(a, ro, r, to, t) ==
    [accessible |-> a, releases_ok |-> ro, releases |-> r, tags_ok |-> to, tags |-> t]

\* get_repo raises GithubException
Inaccessible == Repo(FALSE, FALSE, <<>>, FALSE, <<>>)
\* a prerelease v2 published after the release v1
PreThenStable ==
    Repo(TRUE, TRUE, <<Release(FALSE, TRUE, "v2", None), Release(FALSE, FALSE, "v1", None)>>,
         TRUE, <<"v2", "v1">>)
\* get_releases raises, the tag list answers
TagsOnly == Repo(TRUE, FALSE, <<>>, TRUE, <<"v2">>)
\* only a draft, and get_tags raises
DraftNoTags == Repo(TRUE, TRUE, <<Release(TRUE, FALSE, "v2", None)>>, FALSE, <<>>)

Catalog == {Inaccessible, PreThenStable, TagsOnly, DraftNoTags}

\* the inputs of parse_repo_url: up to MaxPieces pieces, concatenated
Pieces ==
    {SSH_PREFIX, HTTPS_SCHEME, GITHUB_HOST, DOT_GIT,
     <<"a">>, <<"b">>, <<"/">>, <<"#">>, <<"?">>, <<" ">>}

RECURSIVE Concat(_)
Concat(ps) == IF ps = <<>> THEN <<>> ELSE Head(ps) \o Concat(Tail(ps))

\* the releases latest_version_for_repo is tried on: a tag label, or no tag
\* label and then a title or none
Releases ==
    {Release(d, p, t, None) : d \in BOOLEAN, p \in BOOLEAN, t \in {"v1", "v2"}}
        \cup {Release(d, p, None, n) : d \in BOOLEAN, p \in BOOLEAN, n \in {None, "t1"}}

TagNames == {"v3", "v4"}

WatchDoc(shape, repos) == [shape |-> shape, repos |-> repos]

FileDocs ==
    {WatchDoc("ok", l) : l \in SeqsUpTo(Entries, MaxWatch)}
        \cup {WatchDoc("notlist", <<>>), WatchDoc("badtop", <<>>)}

DirDocs ==
    {WatchDoc("ok", <<U1>>), WatchDoc("ok", <<U2>>),
     WatchDoc("notlist", <<>>), WatchDoc("badtop", <<>>)}

WatchPaths ==
    {[kind |-> "absent", files |-> <<>>]}
        \cup {[kind |-> "file", files |-> <<d>>] : d \in FileDocs}
        \cup {[kind |-> "dir", files |-> fs] : fs \in SeqsUpTo(DirDocs, MaxFiles)}

\* state documents a user or an earlier run may have left behind
StateDocs ==
    {<<>>, <<<<U1, "v1">>>>, <<<<U1, "v2">>>>, <<<<U1, "v1">>, <<U2, "v1">>>>}

(***************************************************************************)
(* main(), one action per step                                             *)
(***************************************************************************)
EnvUnchanged == UNCHANGED <<token, INCLUDE_PRERELEASE, watchPath, upstream>>
FnUnchanged == UNCHANGED <<arg, ret>>

\* the process ends: its memory is gone
Exit(code, how) ==
    /\ pc' = "exited"
    /\ exit_code' = code
    /\ exc' = how
    /\ watch_repos' = <<>>
    /\ idx' = 0
    /\ state_map' = EmptyDict
    /\ process_map' = EmptyDict

\* line 294: gh = ensure_github()
EnsureGithub ==
    /\ pc = "ensure_github"
    /\ IF token
       THEN /\ pc' = "load_watch"
            /\ UNCHANGED <<watch_repos, idx, state_map, process_map, exit_code, exc>>
       ELSE Exit(1, "SystemExit")
    /\ EnvUnchanged /\ FnUnchanged
    /\ UNCHANGED <<stateFile, processFile, written, prev, changeLog>>

\* LoadWatch without the test for an empty list
LoadWatch_NoEmptyCheck ==
    /\ pc = "load_watch"
    /\ LET r == load_watch_repositories(watchPath)
       IN  IF r.raised # "none" THEN Exit(1, r.raised)
           ELSE /\ pc' = "load_state"
                /\ watch_repos' = r.value
                /\ UNCHANGED <<idx, state_map, process_map, exit_code, exc>>
    /\ EnvUnchanged /\ FnUnchanged
    /\ UNCHANGED <<stateFile, processFile, written, prev, changeLog>>

\* lines 297-299
LoadWatch ==
    /\ pc = "load_watch"
    /\ LET r == load_watch_repositories(watchPath)
       IN  IF r.raised # "none" THEN Exit(1, r.raised)
           ELSE IF r.value = <<>> THEN Exit(1, "SystemExit")
           ELSE /\ pc' = "load_state"
                /\ watch_repos' = r.value
                /\ UNCHANGED <<idx, state_map, process_map, exit_code, exc>>
    /\ EnvUnchanged /\ FnUnchanged
    /\ UNCHANGED <<stateFile, processFile, written, prev, changeLog>>

\* lines 302-314
LoadState ==
    /\ pc = "load_state"
    /\ state_map' = load_yaml(stateFile)
    /\ process_map' = EmptyDict
    /\ idx' = 1
    /\ pc' = "loop"
    /\ EnvUnchanged /\ FnUnchanged
    /\ UNCHANGED <<stateFile, processFile, written, watch_repos, exit_code, exc,
                   prev, changeLog>>

InLoop == pc = "loop" /\ idx <= Len(watch_repos)

\* line 318
repo_url == strip(watch_repos[idx], Whitespace)

\* line 323
latest == latest_version_for_repo(upstream, repo_url)

\* line 328
current == DictGet(state_map, repo_url)

NextEntry ==
    /\ idx' = idx + 1
    /\ UNCHANGED <<pc, watch_repos, exit_code, exc>>

LoopFrame ==
    /\ EnvUnchanged /\ FnUnchanged
    /\ UNCHANGED <<stateFile, processFile, written, prev>>

\* an iteration that leaves both maps alone
Skip ==
    /\ NextEntry
    /\ LoopFrame
    /\ UNCHANGED <<state_map, process_map, changeLog>>

\* lines 319-320: a blank entry
SkipBlank ==
    /\ InLoop
    /\ repo_url = <<>>
    /\ Skip

\* the entry is not blank and the lookup raised the ValueError of line 181
Raises(url, lat) == url # <<>> /\ lat.raised

\* line 323 with the ValueError of line 181: nothing catches it
ParseError ==
    /\ InLoop
    /\ Raises(repo_url, latest)
    /\ Exit(1, "ValueError")
    /\ LoopFrame
    /\ UNCHANGED changeLog

\* line 324: the entry is not blank and "not latest" holds
NoVersion(url, lat) == url # <<>> /\ ~lat.raised /\ ~Truthy(lat.value)

\* SkipNoVersion with the failed lookup ending the run
SkipNoVersion_Fatal ==
    /\ InLoop
    /\ NoVersion(repo_url, latest)
    /\ Exit(1, "GithubException")
    /\ LoopFrame
    /\ UNCHANGED changeLog

\* lines 324-326
SkipNoVersion ==
    /\ InLoop
    /\ NoVersion(repo_url, latest)
    /\ Skip

\* lines 328-329: the lookup gave a version that differs from the state
Differs(url, lat, cur) == url # <<>> /\ ~lat.raised /\ Truthy(lat.value) /\ cur # lat.value

\* Same with a version ordering: an older latest counts as up to date
Same_Ordered(url, lat, cur) ==
    /\ url # <<>> /\ ~lat.raised /\ Truthy(lat.value)
    /\ cur # None
    /\ (cur = lat.value \/ (cur = "v2" /\ lat.value = "v1"))

\* lines 328-329, 333: the lookup gave the version the state holds
Same(url, lat, cur) == url # <<>> /\ ~lat.raised /\ Truthy(lat.value) /\ cur = lat.value

\* Record with state_map.setdefault(url, value)
Record_KeepsKnownState(url, value) ==
    /\ process_map' = DictSet(process_map, url, value)
    /\ state_map' = IF url \in Keys(state_map) THEN state_map
                    ELSE DictSet(state_map, url, value)
    /\ changeLog' = changeLog \cup {url}

\* Record without the assignment to state_map
Record_ForgetsState(url, value) ==
    /\ process_map' = DictSet(process_map, url, value)
    /\ state_map' = state_map
    /\ changeLog' = changeLog \cup {url}

\* lines 331-332
Record(url, value) ==
    /\ process_map' = DictSet(process_map, url, value)
    /\ state_map' = DictSet(state_map, url, value)
    /\ changeLog' = changeLog \cup {url}

\* lines 329-332
RecordChange ==
    /\ InLoop
    /\ Differs(repo_url, latest, current)
    /\ Record(repo_url, latest.value)
    /\ NextEntry
    /\ LoopFrame

\* lines 333-334
UpToDate ==
    /\ InLoop
    /\ Same(repo_url, latest, current)
    /\ Skip

\* line 317: the list is exhausted
EndLoop ==
    /\ pc = "loop"
    /\ idx > Len(watch_repos)
    /\ pc' = "dump_process"
    /\ EnvUnchanged /\ FnUnchanged
    /\ UNCHANGED <<stateFile, processFile, written, watch_repos, idx, state_map,
                   process_map, exit_code, exc, prev, changeLog>>

\* DumpProcess with the two dumps in the other order
DumpProcess_StateFirst ==
    /\ pc = "dump_process"
    /\ stateFile' = dump_yaml(state_map)
    /\ written' = written \cup {"state"}
    /\ pc' = "dump_state"
    /\ EnvUnchanged /\ FnUnchanged
    /\ UNCHANGED <<processFile, watch_repos, idx, state_map, process_map, exit_code,
                   exc, prev, changeLog>>

\* lines 337, 340
DumpProcess ==
    /\ pc = "dump_process"
    /\ processFile' = dump_yaml(process_map)
    /\ written' = written \cup {"process"}
    /\ pc' = "dump_state"
    /\ EnvUnchanged /\ FnUnchanged
    /\ UNCHANGED <<stateFile, watch_repos, idx, state_map, process_map, exit_code,
                   exc, prev, changeLog>>

\* DumpState writing the changed-map in place of the state map
DumpState_WritesChanges ==
    /\ pc = "dump_state"
    /\ stateFile' = dump_yaml(process_map)
    /\ written' = written \cup {"state"}
    /\ Exit(0, "none")
    /\ EnvUnchanged /\ FnUnchanged
    /\ UNCHANGED <<processFile, prev, changeLog>>

\* lines 338, 341-348 and 352
DumpState ==
    /\ pc = "dump_state"
    /\ stateFile' = dump_yaml(state_map)
    /\ written' = written \cup {"state"}
    /\ Exit(0, "none")
    /\ EnvUnchanged /\ FnUnchanged
    /\ UNCHANGED <<processFile, prev, changeLog>>

(***************************************************************************)
(* The environment of a run                                                *)
(***************************************************************************)
\* the process is terminated from outside
Kill ==
    /\ pc \notin {"exited", "call", "returned"}
    /\ Exit(137, "killed")
    /\ EnvUnchanged /\ FnUnchanged
    /\ UNCHANGED <<stateFile, processFile, written, prev, changeLog>>

\* the scheduler starts the next run
StartRun ==
    /\ pc = "exited"
    /\ prev' = IF exc = "none" THEN "completed"
                ELSE IF exc = "killed" /\ written = {"process"} THEN "between"
                ELSE "aborted"
    /\ pc' = "ensure_github"
    /\ exit_code' = -1
    /\ exc' = "running"
    /\ written' = {}
    /\ changeLog' = {}
    /\ EnvUnchanged /\ FnUnchanged
    /\ UNCHANGED <<stateFile, processFile, watch_repos, idx, state_map, process_map>>

\* a repository publishes, retracts or becomes (in)accessible
UpstreamChange ==
    /\ pc \notin {"call", "returned"}
    /\ \E n \in FullNames, r \in Catalog :
          /\ upstream[n] # r
          /\ upstream' = [upstream EXCEPT ![n] = r]
    /\ FnUnchanged
    /\ UNCHANGED <<token, INCLUDE_PRERELEASE, watchPath, stateFile, processFile,
                   written, pc, watch_repos, idx, state_map, process_map, exit_code,
                   exc, prev, changeLog>>

InitRun ==
    /\ pc = "ensure_github"
    /\ exit_code = -1
    /\ exc = "running"
    /\ written = {}
    /\ changeLog = {}
    /\ watch_repos = <<>>
    /\ idx = 0
    /\ state_map = EmptyDict
    /\ process_map = EmptyDict
    /\ prev = "none"
    /\ arg = <<>>
    /\ ret = <<>>

Init ==
    /\ token \in BOOLEAN
    /\ INCLUDE_PRERELEASE \in BOOLEAN
    /\ watchPath \in WatchPaths
    /\ upstream \in [FullNames -> Catalog]
    /\ stateFile \in StateDocs
    /\ processFile = <<>>
    /\ InitRun

Step ==
    \/ EnsureGithub \/ LoadWatch \/ LoadState
    \/ SkipBlank \/ ParseError \/ SkipNoVersion \/ RecordChange \/ UpToDate
    \/ EndLoop \/ DumpProcess \/ DumpState

Next == Step \/ Kill \/ StartRun \/ UpstreamChange

Spec == Init /\ [][Next]_vars

\* the runs while nothing is published upstream
NextStable == Step \/ Kill \/ StartRun

SpecStable == Init /\ [][NextStable]_vars

(***************************************************************************)
(* parse_repo_url and latest_version_for_repo on their own                 *)
(***************************************************************************)
InitCall ==
    /\ token = TRUE
    /\ watchPath = [kind |-> "absent", files |-> <<>>]
    /\ stateFile = <<>>
    /\ processFile = <<>>
    /\ pc = "call"
    /\ exit_code = -1
    /\ exc = "running"
    /\ written = {}
    /\ changeLog = {}
    /\ watch_repos = <<>>
    /\ idx = 0
    /\ state_map = EmptyDict
    /\ process_map = EmptyDict
    /\ prev = "none"
    /\ ret = <<>>

RunUnchanged ==
    UNCHANGED <<token, INCLUDE_PRERELEASE, watchPath, upstream, stateFile,
                processFile, written, watch_repos, idx, state_map, process_map,
                exit_code, exc, prev, changeLog>>

InitParse ==
    /\ InitCall
    /\ INCLUDE_PRERELEASE = FALSE
    /\ upstream = [n \in FullNames |-> Inaccessible]
    /\ \E ps \in SeqsUpTo(Pieces, MaxPieces) : arg = Concat(ps)

CallParse ==
    /\ pc = "call"
    /\ ret' = parse_repo_url(arg)
    /\ pc' = "returned"
    /\ UNCHANGED arg
    /\ RunUnchanged

SpecParse == InitParse /\ [][CallParse]_vars

InitResolve ==
    /\ InitCall
    /\ INCLUDE_PRERELEASE \in BOOLEAN
    /\ \E a \in BOOLEAN, ro \in BOOLEAN, rs \in SeqsUpTo(Releases, MaxReleases),
          to \in BOOLEAN, ts \in SeqsUpTo(TagNames, MaxTags) :
          /\ a \/ (~ro /\ ~to)
          /\ ro \/ rs = <<>>
          /\ to \/ ts = <<>>
          /\ upstream = [n \in FullNames |-> Repo(a, ro, rs, to, ts)]
    /\ arg \in {U1, U2}

CallResolve ==
    /\ pc = "call"
    /\ ret' = latest_version_for_repo(upstream, arg)
    /\ pc' = "returned"
    /\ UNCHANGED arg
    /\ RunUnchanged

SpecResolve == InitResolve /\ [][CallResolve]_vars

(***************************************************************************)
(* Properties                                                              *)
(***************************************************************************)
\* a step of main() itself: the process is not killed, nothing is published
OwnStep == exc' # "killed" /\ upstream' = upstream

Completed == pc = "exited" /\ exc = "none"

\* the loop stands at a non-blank entry that parse_repo_url rejects
AtUnparsable == InLoop /\ repo_url # <<>> /\ ~parse_repo_url(repo_url).ok

\* the loop stands at an entry whose lookup yields a version
AtResolved == InLoop /\ repo_url # <<>> /\ ~latest.raised /\ Truthy(latest.value)

\* the loop stands at an entry whose lookup fails or finds nothing
AtFailedLookup == InLoop /\ repo_url # <<>> /\ ~latest.raised /\ ~Truthy(latest.value)

SkipsEntry ==
    /\ pc' = "loop"
    /\ idx' = idx + 1
    /\ watch_repos' = watch_repos
    /\ state_map' = state_map
    /\ process_map' = process_map
    /\ exit_code' = exit_code
    /\ stateFile' = stateFile
    /\ processFile' = processFile

\* C1: a watch entry whose URL cannot be parsed does not abort the run: the
\* step main() takes at it is a skip that leaves the state map and the
\* changed-map alone and moves on to the next entry, and a run that ended on
\* its own after the fatal checks has exit code 0 and has written both
\* documents.
C1_UnparsableEntryIsSkipped ==
    /\ [][(AtUnparsable /\ OwnStep) => SkipsEntry]_vars
    /\ [](pc = "exited" /\ exc = "ValueError" => exit_code = 0 /\ written = {"process", "state"})

\* C2: after a run that completes, every key of the changed-map document is a
\* key of the state document and has the same value there.
C2_ProcessMapWithinStateMap ==
    Completed =>
        \A k \in Keys(processFile) :
            k \in Keys(stateFile) /\ DictGet(stateFile, k) = DictGet(processFile, k)

\* a completed run over a list that names the same URL twice reported it
C2_Witness ==
    /\ Completed
    /\ watchPath = [kind |-> "file", files |-> <<WatchDoc("ok", <<U1, U1>>)>>]
    /\ Keys(processFile) = {U1}
    /\ DictGet(stateFile, U1) = "v1"

\* C5: at an entry whose version resolves, the value is recorded under the
\* URL in both maps iff it is not string-equal to the state map's current
\* value (an absent key differs), every other key keeps its value, and
\* otherwise neither map changes; the changed-map holds exactly the URLs for
\* which a change was detected when they were processed.
C5_ChangeIsStringInequality ==
    /\ [](pc \in {"loop", "dump_process", "dump_state"} => Keys(process_map) = changeLog)
    /\ [][(AtResolved /\ OwnStep) =>
            /\ pc' = "loop" /\ idx' = idx + 1
            /\ IF DictGet(state_map, repo_url) # latest.value
               THEN /\ Keys(process_map') = Keys(process_map) \cup {repo_url}
                    /\ Keys(state_map') = Keys(state_map) \cup {repo_url}
                    /\ \A k \in Keys(process_map') :
                          DictGet(process_map', k) =
                              IF k = repo_url THEN latest.value ELSE DictGet(process_map, k)
                    /\ \A k \in Keys(state_map') :
                          DictGet(state_map', k) =
                              IF k = repo_url THEN latest.value ELSE DictGet(state_map, k)
               ELSE process_map' = process_map /\ state_map' = state_map]_vars

\* a change to the version the state held before v2 was recorded: v1 replaced v2
C5_Witness ==
    /\ pc = "loop"
    /\ idx > 1
    /\ DictGet(stateFile, U1) = "v2"
    /\ DictGet(process_map, U1) = "v1"
    /\ DictGet(state_map, U1) = "v1"
    /\ U2 \notin Keys(process_map)

MissingCredential == ~token
WatchPathMissing == watchPath.kind = "absent"
MalformedWatchFile ==
    watchPath.kind = "file" /\ watchPath.files[1].shape \in {"badtop", "notlist"}
ZeroWatchEntries ==
    /\ watchPath.kind \in {"file", "dir"}
    /\ \A i \in 1..Len(watchPath.files) :
          watchPath.files[i].shape = "ok" => watchPath.files[i].repos = <<>>
FatalCondition ==
    MissingCredential \/ WatchPathMissing \/ MalformedWatchFile \/ ZeroWatchEntries

\* C7: under a fatal condition the run never gets past the loading of the
\* watch-list (no lookup), writes neither document, leaves both documents on
\* disk as they are, and when it has ended its exit code is not 0.
C7_FatalConditionsStopTheRun ==
    /\ [](FatalCondition =>
            /\ pc \in {"ensure_github", "load_watch", "exited"}
            /\ written = {}
            /\ (pc = "exited" => exit_code > 0))
    /\ [][FatalCondition => stateFile' = stateFile /\ processFile' = processFile]_vars

\* a malformed single watch file ended the run with exit code 1, the state
\* document is still there
C7_Witness ==
    /\ pc = "exited"
    /\ token
    /\ MalformedWatchFile
    /\ exit_code = 1
    /\ exc \in {"SystemExit", "AttributeError"}
    /\ stateFile # <<>>

\* C8: no step removes a key from the state document, and the state document
\* a completing run writes holds the keys of the one it read plus this run's
\* changes, each at the changed value if this run changed it and at its old
\* value otherwise.
C8_StateOnlyGrows ==
    [][/\ Keys(stateFile) \subseteq Keys(stateFile')
       /\ (pc = "dump_state" /\ exc' = "none") =>
             /\ Keys(stateFile') = Keys(stateFile) \cup Keys(processFile)
             /\ \A k \in Keys(stateFile') :
                   DictGet(stateFile', k) =
                       IF k \in Keys(processFile) THEN DictGet(processFile, k)
                       ELSE DictGet(stateFile, k)]_vars

\* a completed run that watches only U1 changed U1 and kept the entry of U2
C8_Witness ==
    /\ Completed
    /\ watchPath = [kind |-> "file", files |-> <<WatchDoc("ok", <<U1>>)>>]
    /\ Keys(processFile) = {U1}
    /\ DictGet(stateFile, U2) = "v1"
    /\ DictGet(stateFile, U1) = "v2"

\* C3: when a run completes right after a completed run and nothing was
\* published in between, its changed-map is empty and the state document it
\* writes is the one the first run wrote.
C3_SecondRunIsIdle ==
    [][(prev = "completed" /\ pc = "dump_state" /\ exc' = "none") =>
          /\ process_map = EmptyDict
          /\ processFile = <<>>
          /\ stateFile' = stateFile]_vars

\* the second of two completed runs has ended; the first one had recorded
\* both URLs
C3_Witness ==
    /\ Completed
    /\ prev = "completed"
    /\ processFile = <<>>
    /\ stateFile = <<<<U2, "v2">>, <<U1, "v2">>>>

\* C10: the changed-entries document is written before the state document and
\* neither before the loop is over; a step that gives a URL a new value in
\* the state document finds that URL with that value in the changed-entries
\* document this run has written; a kill changes neither document, and the
\* run after one killed between the two writes writes the same
\* changed-entries document again.
C10_ChangesWrittenBeforeState ==
    /\ []("state" \in written => "process" \in written)
    /\ [](written # {} => pc \in {"dump_state", "exited"})
    /\ [][/\ stateFile' # stateFile =>
                /\ "process" \in written
                /\ \A k \in Keys(stateFile') :
                      DictGet(stateFile', k) # DictGet(stateFile, k) =>
                          DictGet(processFile, k) = DictGet(stateFile', k)
          /\ exc' = "killed" => stateFile' = stateFile /\ processFile' = processFile
          /\ (prev = "between" /\ pc = "dump_process" /\ pc' = "dump_state") =>
                processFile' = processFile]_vars

\* the run after one that was killed between the two writes has written its
\* changed-entries document, the state document is still the old one
C10_Witness ==
    /\ prev = "between"
    /\ pc = "dump_state"
    /\ written = {"process"}
    /\ processFile = <<<<U1, "v2">>>>
    /\ DictGet(stateFile, U1) = "v1"

(***************************************************************************)
(* Properties of latest_version_for_repo                                   *)
(***************************************************************************)
\* the repository behind U1 and U2
WatchedRepo == upstream[<<"a", "/", "w">>]

PassesFilters(rel) == ~rel.draft /\ (INCLUDE_PRERELEASE \/ ~rel.prerelease)

HasLabel(rel) == Truthy(rel.tag_name) \/ Truthy(rel.title)

LabelOf(rel) == IF Truthy(rel.tag_name) THEN rel.tag_name ELSE rel.title

FirstTagName == IF WatchedRepo.tags_ok /\ WatchedRepo.tags # <<>> THEN WatchedRepo.tags[1] ELSE None

\* positions of the releases that pass the draft and prerelease filters
Passing == {i \in 1..Len(WatchedRepo.releases) : PassesFilters(WatchedRepo.releases[i])}

\* positions of the passing releases that carry a tag label or a title
Usable == {i \in Passing : HasLabel(WatchedRepo.releases[i])}

Least(S) == CHOOSE i \in S : \A j \in S : i <= j

NonEmpty(seg) == seg # <<>>

\* the first two non-empty segments of the normalized path
ClaimedPair(url) ==
    LET segs == SelectSeq(split(NormalizedPath(url), <<"/">>), NonEmpty)
    IN  IF Len(segs) < 2
        THEN [ok |-> FALSE, owner |-> <<>>, repo |-> <<>>]
        ELSE [ok |-> TRUE, owner |-> segs[1], repo |-> segs[2]]

\* C9: parse_repo_url returns the first two non-empty segments of the
\* normalized path as (owner, name), fails when fewer than two remain, and
\* never returns an empty owner or an empty name.
C9_FirstTwoNonEmptySegments ==
    pc = "returned" =>
        /\ ret = ClaimedPair(arg)
        /\ ret.ok => (ret.owner # <<>> /\ ret.repo # <<>>)

====
